---- MODULE Spec2Model ----
(***************************************************************************)
(* ArachnidDatabase (src/ArachnidDatabase.py): two SQLite tables, species  *)
(* and sightings, behind insert, statistics, search and export methods.    *)
(*                                                                         *)
(* Text is a sequence of one-character strings.  Python None and SQL NULL  *)
(* are the one-element sequence None, which is no text of the model.  A    *)
(* datetime is a pair of digits <<second, fraction>>; sqlite3's default    *)
(* adapter turns it into ISO text, and the engine compares that text.      *)
(* Columns that the code only carries from the input dictionary into the   *)
(* row (family, average_size_mm, habitat, description, latitude,           *)
(* longitude, weather_conditions, notes, photo_path) behave as             *)
(* common_name and location_description do and are not repeated.           *)
(***************************************************************************)
EXTENDS Integers, Sequences, FiniteSets, TLC

VARIABLES
    species,    \* the rows of table species (lines 19-30)
    sightings,  \* the rows of table sightings (lines 33-46)
    file,       \* what export_data's destination file_path holds
    call,       \* the method called last
    args,       \* the dictionary or format it was called with
    ret,        \* what it returned
    exc         \* the exception it let through to the caller, or "none"

vars == <<species, sightings, file, call, args, ret, exc>>

(* ------------------------------ bounds -------------------------------- *)

\* most rows the sightings table holds in the model
MaxSightings == 2

(* ------------------------------ values -------------------------------- *)

None == <<"None">>

\* the return value of add_species and record_sighting on failure
Sentinel == -1

NoFile == [format |-> <<>>, rows |-> {}, exists |-> FALSE]

\* Python values that carry their type, where the type decides the outcome
PyInt(n) == [type |-> "int", v |-> n]
PyList == [type |-> "list"]

\* what datetime.now() returns when a record gives no date_time
ClockReadings == {<<"1", "5">>, <<"2", "0">>}

\* sqlite3's default datetime adapter: datetime.isoformat(" "), which leaves
\* the fraction out when microsecond is 0
AdaptDatetime(dt) ==
    IF dt[2] = "0" THEN <<dt[1]>> ELSE <<dt[1], ".", dt[2]>>

\* byte values of the characters that occur in stored timestamps
CharCode(c) ==
    CASE c = "." -> 46
      [] c = "0" -> 48
      [] c = "1" -> 49
      [] c = "2" -> 50
      [] c = "5" -> 53

\* SQLite's BINARY collation on TEXT: memcmp, the shorter prefix first
RECURSIVE TextLeq(_, _)
TextLeq(a, b) ==
    IF a = <<>> THEN TRUE
    ELSE IF b = <<>> THEN FALSE
    ELSE IF Head(a) = Head(b) THEN TextLeq(Tail(a), Tail(b))
    ELSE CharCode(Head(a)) < CharCode(Head(b))

\* str.lower() and LIKE's case folding, on the letters of the model
LowerChar(c) ==
    CASE c = "A" -> "a"
      [] c = "B" -> "b"
      [] c = "C" -> "c"
      [] c = "E" -> "e"
      [] c = "L" -> "l"
      [] c = "S" -> "s"
      [] c = "V" -> "v"
      [] c = "X" -> "x"
      [] OTHER -> c

lower(s) == [i \in 1..Len(s) |-> LowerChar(s[i])]

\* SQLite's LIKE: % is any run of characters, _ any one character, ASCII
\* letters match in either case; NULL LIKE p is NULL, which WHERE rejects
RECURSIVE LikeText(_, _)
LikeText(s, p) ==
    IF p = <<>> THEN s = <<>>
    ELSE IF Head(p) = "%"
        THEN LikeText(s, Tail(p)) \/ (s # <<>> /\ LikeText(Tail(s), p))
    ELSE /\ s # <<>>
         /\ (Head(p) = "_" \/ LowerChar(Head(p)) = LowerChar(Head(s)))
         /\ LikeText(Tail(s), Tail(p))

Like(s, p) == s # None /\ LikeText(s, p)

\* Python truthiness of an Optional argument: None and "" are false
Truthy(x) == x # None /\ x # <<>>

\* dict.get(key, default)
Get(d, key, default) == IF key \in DOMAIN d THEN d[key] ELSE default

(* ------------------------------ tables -------------------------------- *)

\* rowids counted from 0
NextRowidFromZero(table) == Cardinality(table)

\* INTEGER PRIMARY KEY without a value: one more than the largest rowid
NextRowid(table) ==
    IF table = {} THEN 1
    ELSE 1 + (CHOOSE m \in {r.id : r \in table} : \A r \in table : r.id <= m)

\* a species table without the UNIQUE constraint
UniqueViolationNever(sp, name) == FALSE

\* UNIQUE on species.scientific_name (BINARY collation: case matters)
UniqueViolation(sp, name) == \E r \in sp : r.scientific_name = name

SpeciesRow(sp, d) ==
    [id |-> NextRowid(sp),
     scientific_name |-> d["scientific_name"],
     common_name |-> Get(d, "common_name", None),
     venomous |-> Get(d, "venomous", FALSE)]

\* sqlite3 binds int, float, str, bytes, None and adapted types only
Bindable(v) == v.type = "int"

SightingRow(st, d, now) ==
    [id |-> NextRowid(st),
     species_id |-> d["species_id"].v,
     date_time |-> AdaptDatetime(Get(d, "date_time", now)),
     location_description |-> Get(d, "location_description", None)]

(* ------------------------------ queries ------------------------------- *)

\* MIN(st.date_time) and MAX(st.date_time) over a group; NULL on no row
MinText(S) == IF S = {} THEN None ELSE CHOOSE m \in S : \A x \in S : TextLeq(m, x)

\* MAX written as MIN
MaxTextAsMin(S) == MinText(S)

MaxText(S) == IF S = {} THEN None ELSE CHOOSE m \in S : \A x \in S : TextLeq(x, m)

\* species s LEFT JOIN sightings st ON s.id = st.species_id, one group per s.id
LeftJoin(s, st) == {t \in st : s.id = t.species_id}

\* the statistics query with JOIN in place of LEFT JOIN
get_species_statistics_inner(sp, st) ==
    {[scientific_name |-> s.scientific_name,
      common_name |-> s.common_name,
      sighting_count |-> Cardinality(LeftJoin(s, st)),
      first_sighting |-> MinText({t.date_time : t \in LeftJoin(s, st)}),
      last_sighting |-> MaxText({t.date_time : t \in LeftJoin(s, st)})] :
        s \in {x \in sp : LeftJoin(x, st) # {}}}

get_species_statistics(sp, st) ==
    {[scientific_name |-> s.scientific_name,
      common_name |-> s.common_name,
      sighting_count |-> Cardinality(LeftJoin(s, st)),
      first_sighting |-> MinText({t.date_time : t \in LeftJoin(s, st)}),
      last_sighting |-> MaxText({t.date_time : t \in LeftJoin(s, st)})] : s \in sp}

\* the join as LEFT JOIN: a sighting without a species comes with nulls
InnerJoinAsLeft(sp, st) ==
    {<<t, s>> \in st \X sp : t.species_id = s.id}
    \cup {<<t, [id |-> 0, scientific_name |-> None, common_name |-> None,
                venomous |-> FALSE]>> : t \in {u \in st : \A s \in sp : s.id # u.species_id}}

\* sightings st JOIN species s ON st.species_id = s.id
InnerJoin(sp, st) == {<<t, s>> \in st \X sp : t.species_id = s.id}

\* f"%{term}%"
Wildcard(term) == <<"%">> \o term \o <<"%">>

\* the WHERE clause with > for start_date
SearchWhereAfter(t, s, start_date, end_date, species_name, location) ==
    /\ Truthy(start_date) => ~TextLeq(t.date_time, AdaptDatetime(start_date))
    /\ Truthy(end_date) => TextLeq(t.date_time, AdaptDatetime(end_date))
    /\ Truthy(species_name) =>
           \/ Like(s.scientific_name, Wildcard(species_name))
           \/ Like(s.common_name, Wildcard(species_name))
    /\ Truthy(location) => Like(t.location_description, Wildcard(location))

\* the WHERE clause search_sightings builds, on one joined pair
SearchWhere(t, s, start_date, end_date, species_name, location) ==
    /\ Truthy(start_date) => TextLeq(AdaptDatetime(start_date), t.date_time)
    /\ Truthy(end_date) => TextLeq(t.date_time, AdaptDatetime(end_date))
    /\ Truthy(species_name) =>
           \/ Like(s.scientific_name, Wildcard(species_name))
           \/ Like(s.common_name, Wildcard(species_name))
    /\ Truthy(location) => Like(t.location_description, Wildcard(location))

search_sightings(sp, st, start_date, end_date, species_name, location) ==
    {[id |-> j[1].id,
      species_id |-> j[1].species_id,
      date_time |-> j[1].date_time,
      location_description |-> j[1].location_description,
      scientific_name |-> j[2].scientific_name,
      common_name |-> j[2].common_name] :
        j \in {k \in InnerJoin(sp, st) :
                  SearchWhere(k[1], k[2], start_date, end_date, species_name, location)}}

\* the data frame export_data reads before it looks at the format
ExportFrame(sp, st) ==
    {[sighting_id |-> j[1].id,
      scientific_name |-> j[2].scientific_name,
      common_name |-> j[2].common_name,
      venomous |-> j[2].venomous,
      date_time |-> j[1].date_time,
      location_description |-> j[1].location_description] : j \in InnerJoin(sp, st)}

\* the format compared without lower()
FormatAcceptedExact(format) ==
    format \in {<<"c", "s", "v">>, <<"e", "x", "c", "e", "l">>}

\* format.lower() == 'csv' / == 'excel'
FormatAccepted(format) ==
    lower(format) \in {<<"c", "s", "v">>, <<"e", "x", "c", "e", "l">>}

(* ------------------------------ inputs -------------------------------- *)

SpeciesInputs ==
    {[scientific_name |-> <<"A", "b">>],
     [scientific_name |-> <<"A", "b">>, common_name |-> <<"B", "a">>],
     [scientific_name |-> <<"a", "b">>, common_name |-> <<"B", "a">>, venomous |-> TRUE]}

\* species_id is 1 or 2: either may or may not be the id of a species row
SightingInputs ==
    {[species_id |-> PyInt(1)],
     [species_id |-> PyInt(2), date_time |-> <<"1", "0">>,
      location_description |-> <<"a", "B">>]}

\* records without the required key, and with a value sqlite3 cannot bind
MalformedSightingInputs ==
    {[location_description |-> <<"a", "B">>], [species_id |-> PyList]}

DateFilters == {None, <<"1", "5">>}
NameFilters == {None, <<"_", "A">>}
LocationFilters == {None, <<>>, <<"b">>}

Formats ==
    {<<"c", "s", "v">>, <<"C", "S", "V">>, <<"E", "x", "c", "e", "l">>,
     <<"x", "l", "s">>}

NoArgs == [none |-> TRUE]

\* the species_id values that callers pass
SpeciesIds == {d["species_id"].v : d \in SightingInputs}

(* ------------------------------ actions ------------------------------- *)

Init ==
    /\ species = {}
    /\ sightings = {}
    /\ file = NoFile
    /\ call = "__init__"
    /\ args = NoArgs
    /\ ret = None
    /\ exc = "none"

\* __init__ that drops and creates the tables anew
InitializeAnew ==
    /\ call' = "__init__"
    /\ args' = NoArgs
    /\ ret' = None
    /\ exc' = "none"
    /\ species' = {}
    /\ sightings' = {}
    /\ UNCHANGED file

\* __init__ on the same location: CREATE TABLE IF NOT EXISTS finds both tables
Initialize ==
    /\ call' = "__init__"
    /\ args' = NoArgs
    /\ ret' = None
    /\ exc' = "none"
    /\ UNCHANGED <<species, sightings, file>>

AddSpecies ==
    \E d \in SpeciesInputs :
        /\ call' = "add_species"
        /\ args' = d
        /\ exc' = "none"
        /\ IF UniqueViolation(species, d["scientific_name"])
              THEN \* sqlite3.IntegrityError: the statement inserts nothing
                   /\ ret' = Sentinel
                   /\ UNCHANGED species
              ELSE /\ species' = species \cup {SpeciesRow(species, d)}
                   /\ ret' = SpeciesRow(species, d).id
        /\ UNCHANGED <<sightings, file>>

RecordSighting ==
    \E d \in SightingInputs \cup MalformedSightingInputs, now \in ClockReadings :
        /\ call' = "record_sighting"
        /\ args' = d
        /\ IF "species_id" \notin DOMAIN d
              THEN \* KeyError is no sqlite3.Error: the except clause lets it pass
                   /\ exc' = "KeyError"
                   /\ ret' = None
                   /\ UNCHANGED sightings
              ELSE IF ~Bindable(d["species_id"])
              THEN \* a binding error is a sqlite3.Error: caught
                   /\ exc' = "none"
                   /\ ret' = Sentinel
                   /\ UNCHANGED sightings
              ELSE /\ Cardinality(sightings) < MaxSightings
                   /\ exc' = "none"
                   /\ sightings' = sightings \cup {SightingRow(sightings, d, now)}
                   /\ ret' = SightingRow(sightings, d, now).id
        /\ UNCHANGED <<species, file>>

GetSpeciesStatistics ==
    /\ call' = "get_species_statistics"
    /\ args' = NoArgs
    /\ ret' = get_species_statistics(species, sightings)
    /\ exc' = "none"
    /\ UNCHANGED <<species, sightings, file>>

SearchSightings ==
    \E start_date \in DateFilters, end_date \in DateFilters,
       species_name \in NameFilters, location \in LocationFilters :
        /\ call' = "search_sightings"
        /\ args' = NoArgs
        /\ ret' = search_sightings(species, sightings,
                                   start_date, end_date, species_name, location)
        /\ exc' = "none"
        /\ UNCHANGED <<species, sightings, file>>

ExportData ==
    \E format \in Formats :
        /\ call' = "export_data"
        /\ args' = [format |-> format]
        /\ ret' = None
        /\ IF FormatAccepted(format)
              THEN /\ file' = [format |-> lower(format),
                               rows |-> ExportFrame(species, sightings),
                               exists |-> TRUE]
                   /\ exc' = "none"
              ELSE /\ exc' = "ValueError"
                   /\ UNCHANGED file
        /\ UNCHANGED <<species, sightings>>

Next ==
    \/ Initialize
    \/ AddSpecies
    \/ RecordSighting
    \/ GetSpeciesStatistics
    \/ SearchSightings
    \/ ExportData

Spec == Init /\ [][Next]_vars

(* ------------------------- notions of the claims ---------------------- *)

DigitValue(c) == CASE c = "0" -> 0 [] c = "1" -> 1 [] c = "2" -> 2 [] c = "5" -> 5

\* the datetime a stored timestamp text stands for
DatetimeOfText(x) == IF Len(x) = 1 THEN <<x[1], "0">> ELSE <<x[1], x[3]>>

\* chronological order of datetimes: a is not later than b
NotLater(a, b) ==
    \/ DigitValue(a[1]) < DigitValue(b[1])
    \/ a[1] = b[1] /\ DigitValue(a[2]) <= DigitValue(b[2])

StoredNotLater(x, y) == NotLater(DatetimeOfText(x), DatetimeOfText(y))

HasSpecies(sp, k) == \E s \in sp : s.id = k
SightingsOf(st, k) == {t \in st : t.species_id = k}
StatisticsRow(stats, s) == CHOOSE r \in stats : r.scientific_name = s.scientific_name

AllFilters == DateFilters \X DateFilters \X NameFilters \X LocationFilters
Search(f) == search_sightings(species, sightings, f[1], f[2], f[3], f[4])

\* the call just made is record_sighting with species_id = k
RecordedFor(k) ==
    /\ call = "record_sighting"
    /\ "species_id" \in DOMAIN args
    /\ args["species_id"] = PyInt(k)

(* ------------------------------- claims ------------------------------- *)

\* C1: in every reachable state no two rows of the species table have the
\* same scientific_name.
C1_UniqueScientificName ==
    \A r, q \in species : r.scientific_name = q.scientific_name => r = q

\* a second row was added and a later add_species met a name already stored
C1_Witness ==
    /\ Cardinality(species) = 2
    /\ call = "add_species"
    /\ ret = Sentinel

C3_RecordSightingTotal ==
    call = "record_sighting" =>
        /\ exc = "none"
        /\ \/ ret = Sentinel
           \/ \E t \in sightings : t.id = ret

\* C4: record_sighting with the id k of a stored species succeeds, and the
\* statistics after it differ from those before it only in the row of k: the
\* count is one larger, last_sighting is the new timestamp when that is not
\* earlier than any earlier sighting of k, the other rows are the same.
C4_SightingCountedOnce ==
    [][\A k \in {s.id : s \in species} :
          RecordedFor(k)' =>
              /\ exc' = "none"
              /\ ret' # Sentinel
              /\ Cardinality(sightings' \ sightings) = 1
              /\ LET s == CHOOSE x \in species : x.id = k
                     t == CHOOSE x \in sightings' \ sightings : TRUE
                     before == get_species_statistics(species, sightings)
                     after == get_species_statistics(species', sightings')
                     rb == StatisticsRow(before, s)
                     ra == StatisticsRow(after, s)
                 IN  /\ t.id = ret'
                     /\ t.species_id = k
                     /\ ra.sighting_count = rb.sighting_count + 1
                     /\ (\A u \in SightingsOf(sightings, k) :
                             StoredNotLater(u.date_time, t.date_time))
                            => ra.last_sighting = t.date_time
                     /\ after \ {ra} = before \ {rb}]_vars

\* a sighting of a species was recorded that is earlier than one it already
\* had, and one that is later
C4_Witness ==
    \E k \in {s.id : s \in species} :
        /\ RecordedFor(k)
        /\ ret # Sentinel
        /\ Cardinality(SightingsOf(sightings, k)) = 2
        /\ \E t, u \in SightingsOf(sightings, k) :
               /\ t.id = ret
               /\ u.id # ret
               /\ ~StoredNotLater(u.date_time, t.date_time)

\* C5: get_species_statistics returns exactly one row per species row and no
\* other; sighting_count is the number of sightings of that species,
\* first_sighting and last_sighting the earliest and latest of them, and a
\* species without sightings has count 0 and both null.
C5_StatisticsPerSpecies ==
    call = "get_species_statistics" =>
        /\ Cardinality(ret) = Cardinality(species)
        /\ \A r \in ret : \E s \in species : s.scientific_name = r.scientific_name
        /\ \A s \in species :
               LET mine == SightingsOf(sightings, s.id)
                   rows == {r \in ret : r.scientific_name = s.scientific_name}
               IN  /\ Cardinality(rows) = 1
                   /\ \A r \in rows :
                          /\ r.common_name = s.common_name
                          /\ r.sighting_count = Cardinality(mine)
                          /\ IF mine = {}
                                THEN r.first_sighting = None /\ r.last_sighting = None
                                ELSE /\ \E t \in mine : t.date_time = r.first_sighting
                                     /\ \E t \in mine : t.date_time = r.last_sighting
                                     /\ \A t \in mine :
                                            /\ StoredNotLater(r.first_sighting, t.date_time)
                                            /\ StoredNotLater(t.date_time, r.last_sighting)

\* statistics over a species with two sightings at different times and a
\* species with none
C5_Witness ==
    /\ call = "get_species_statistics"
    /\ \E r \in ret : r.sighting_count = 2 /\ r.first_sighting # r.last_sighting
    /\ \E r \in ret : r.sighting_count = 0

CasePairs ==
    {<<"a", "A">>, <<"b", "B">>, <<"c", "C">>, <<"e", "E">>,
     <<"l", "L">>, <<"s", "S">>, <<"v", "V">>, <<"x", "X">>}

\* the same letter in either case
SameLetter(x, y) == x = y \/ <<x, y>> \in CasePairs \/ <<y, x>> \in CasePairs

EqualIgnoringCase(a, b) ==
    Len(a) = Len(b) /\ \A i \in 1..Len(a) : SameLetter(a[i], b[i])

\* term occurs somewhere in text, letters in either case, _ standing for any
\* one character (the terms of the model hold no %)
OccursIn(term, text) ==
    /\ text # None
    /\ \E i \in 0..(Len(text) - Len(term)) :
           \A j \in 1..Len(term) : term[j] = "_" \/ SameLetter(term[j], text[i + j])

\* a filter is supplied when it has a value: None and the empty string are
\* omitted filters
Supplied(x) == x \notin {None, <<>>}

Dangling(t) == ~HasSpecies(species, t.species_id)

\* sighting t, of species s, passes every supplied filter of f
Passes(t, s, f) ==
    /\ Supplied(f[1]) => NotLater(f[1], DatetimeOfText(t.date_time))
    /\ Supplied(f[2]) => NotLater(DatetimeOfText(t.date_time), f[2])
    /\ Supplied(f[3]) => OccursIn(f[3], s.scientific_name) \/ OccursIn(f[3], s.common_name)
    /\ Supplied(f[4]) => OccursIn(f[4], t.location_description)

\* C6: for every store and every combination of supplied and omitted filters
\* search_sightings returns exactly the sightings that have a species and
\* pass every supplied filter, start_date and end_date inclusive; with no
\* filter, every sighting that has a species.
C6_SearchExact ==
    /\ \A f \in AllFilters :
           LET found == Search(f)
               ids == {r.id : r \in found}
           IN  /\ ids = {t.id : t \in {u \in sightings :
                        \E s \in species : s.id = u.species_id /\ Passes(u, s, f)}}
               /\ \A r \in found : \E t \in sightings, s \in species :
                      /\ t.id = r.id /\ s.id = t.species_id
                      /\ r.species_id = t.species_id
                      /\ r.date_time = t.date_time
                      /\ r.location_description = t.location_description
                      /\ r.scientific_name = s.scientific_name
                      /\ r.common_name = s.common_name
               /\ Cardinality(found) = Cardinality(ids)
    /\ {r.id : r \in Search(<<None, None, None, None>>)} =
           {t.id : t \in {u \in sightings : ~Dangling(u)}}
    /\ call = "search_sightings" => \E f \in AllFilters : ret = Search(f)

\* a search whose start_date is the timestamp of a sighting returned that
\* sighting and left out an earlier sighting that has a species
C6_Witness ==
    /\ call = "search_sightings"
    /\ \E f \in AllFilters, t, u \in sightings :
           /\ Supplied(f[1]) /\ f[2] = None /\ f[3] = None /\ f[4] = None
           /\ ret = Search(f)
           /\ DatetimeOfText(t.date_time) = f[1]
           /\ t.id \in {r.id : r \in ret}
           /\ ~Dangling(u)
           /\ u.id \notin {r.id : r \in ret}

\* C7: export_data with a format name that is neither csv nor excel in any
\* letter case reports an error, writes nothing to the destination and leaves
\* both tables unchanged; csv and excel in any letter case are accepted.
C7_ExportFormat ==
    [][call' = "export_data" =>
          IF \/ EqualIgnoringCase(args'["format"], <<"c", "s", "v">>)
             \/ EqualIgnoringCase(args'["format"], <<"e", "x", "c", "e", "l">>)
             THEN exc' = "none" /\ file'.exists
             ELSE /\ exc' = "ValueError"
                  /\ file' = file
                  /\ species' = species
                  /\ sightings' = sightings]_vars

\* an export was refused while the destination held an earlier export that
\* the tables have since outgrown
C7_Witness ==
    /\ call = "export_data"
    /\ exc = "ValueError"
    /\ file.exists
    /\ file.rows # ExportFrame(species, sightings)

\* C8: record_sighting stores a sighting whose species_id matches no species
\* and returns its id; such a sighting is returned by no search under any
\* filters and is in no exported row, and every sighting that has a species
\* is in the export exactly once.
C8_DanglingExcluded ==
    /\ \A k \in SpeciesIds :
           RecordedFor(k) /\ ~HasSpecies(species, k) =>
               /\ ret # Sentinel
               /\ \E t \in sightings : t.id = ret /\ t.species_id = k
    /\ \/ \A t \in sightings : ~Dangling(t)
       \/ \A f \in AllFilters :
              LET ids == {r.id : r \in Search(f)}
              IN  \A t \in sightings : Dangling(t) => t.id \notin ids
    /\ call = "export_data" /\ exc = "none" =>
           \A t \in sightings :
               Cardinality({r \in file.rows : r.sighting_id = t.id})
                   = IF Dangling(t) THEN 0 ELSE 1

\* an export made while the store holds a sighting with a species and one
\* that record_sighting stored, returning its id, without a species
C8_Witness ==
    /\ call = "export_data"
    /\ exc = "none"
    /\ file.rows # {}
    /\ \E t, u \in sightings : Dangling(t) /\ ~Dangling(u)

\* C9: stored rows are immutable: every species row and sighting row is in
\* every later state with the same id and fields; statistics, search, export
\* and re-initialisation leave both tables unchanged, add_species leaves
\* sightings unchanged and record_sighting leaves species unchanged.
C9_RowsImmutable ==
    [][/\ species \subseteq species'
       /\ sightings \subseteq sightings'
       /\ \A r \in species' \ species : \A q \in species : q.id # r.id
       /\ \A r \in sightings' \ sightings : \A q \in sightings : q.id # r.id
       /\ call' \in {"get_species_statistics", "search_sightings",
                     "export_data", "__init__"}
              => species' = species /\ sightings' = sightings
       /\ call' = "add_species" => sightings' = sightings
       /\ call' = "record_sighting" => species' = species]_vars

\* the store was re-initialised while both tables held rows
C9_Witness ==
    /\ call = "__init__"
    /\ species # {}
    /\ sightings # {}

\* C10: a species that add_species has just created has no sightings: its
\* statistics row has count 0 and null first and last sighting, and a search
\* without filters returns no row of it.
C10_NewSpeciesHasNoSightings ==
    call = "add_species" /\ ret # Sentinel =>
        LET s == CHOOSE x \in species : x.id = ret
            row == StatisticsRow(get_species_statistics(species, sightings), s)
        IN  /\ row.sighting_count = 0
            /\ row.first_sighting = None
            /\ row.last_sighting = None
            /\ \A r \in Search(<<None, None, None, None>>) : r.species_id # ret

====
